---- MODULE Spec2Model ----
(***************************************************************************)
(* A model of python/jittor/optim.py: the Optimizer base class (pre_step   *)
(* and the plain gradient step), SGD and Adam.                             *)
(*                                                                         *)
(* Tensors are scalars.  A value is an exact rational <<num, den>> in      *)
(* lowest terms with den > 0; <<1, 0>> stands for a non-finite float (the  *)
(* result of a division by zero).  jt.sqrt is the one inexact operation:   *)
(* it is exact on squares of rationals and rounds down to a multiple of    *)
(* 1/2 otherwise.                                                          *)
(*                                                                         *)
(* In distributed mode (jt.mpi set) every worker of the world runs the     *)
(* same program and calls step in lockstep: mpi_all_reduce is a blocking   *)
(* collective, so one Step action is one step call on every worker.        *)
(***************************************************************************)
EXTENDS Integers, Sequences, FiniteSets, TLC

(* ------------------------------ bounds -------------------------------- *)

\* successful step calls explored per optimizer
MaxSteps == 3
\* parameters handed to one constructor call
MaxParams == 2

\* param_sync_iter=10000, default of Optimizer.__init__, used by SGD and Adam
DefaultParamSyncIter == 10000

(* ---------------------------- arithmetic ------------------------------ *)

\* None where a tensor may stand
None == <<>>

Abs(x) == IF x < 0 THEN -x ELSE x

RECURSIVE GCD(_, _)
GCD(a, b) == IF b = 0 THEN a ELSE GCD(b, a % b)

NonFinite == <<1, 0>>

\* the rational n/d in lowest terms; a zero denominator is non-finite
RNorm(n, d) ==
    IF d = 0 THEN NonFinite
    ELSE LET g == GCD(Abs(n), Abs(d))
             s == IF d < 0 THEN -1 ELSE 1
         IN  <<(s * n) \div g, (s * d) \div g>>

R(n) == <<n, 1>>
Zero == R(0)
One == R(1)
Half == <<1, 2>>

\* sums and products go through the least common denominator and cancel
\* before they multiply, which keeps the intermediate integers small
RAdd(a, b) ==
    IF a[2] = 0 \/ b[2] = 0 THEN NonFinite
    ELSE LET g == GCD(a[2], b[2])
         IN  RNorm(a[1] * (b[2] \div g) + b[1] * (a[2] \div g), (a[2] \div g) * b[2])
RNeg(a) == IF a[2] = 0 THEN NonFinite ELSE <<-a[1], a[2]>>
RSub(a, b) == RAdd(a, RNeg(b))
RMul(a, b) ==
    IF a[2] = 0 \/ b[2] = 0 THEN NonFinite
    ELSE LET g1 == GCD(b[2], Abs(a[1]))
             g2 == GCD(a[2], Abs(b[1]))
         IN  <<(a[1] \div g1) * (b[1] \div g2), (a[2] \div g2) * (b[2] \div g1)>>
RDiv(a, b) == IF a[2] = 0 \/ b[2] = 0 \/ b[1] = 0 THEN NonFinite
              ELSE RMul(a, RNorm(b[2], b[1]))

RECURSIVE RPow(_, _)
RPow(b, n) == IF n = 0 THEN One ELSE RMul(b, RPow(b, n - 1))

RECURSIVE IsqrtBetween(_, _, _)
IsqrtBetween(n, lo, hi) ==
    IF lo >= hi THEN lo
    ELSE LET mid == (lo + hi + 1) \div 2
         IN  IF mid * mid <= n THEN IsqrtBetween(n, mid, hi)
             ELSE IsqrtBetween(n, lo, mid - 1)

\* floor of the square root of a natural number
Isqrt(n) == IsqrtBetween(n, 0, IF n < 46340 THEN n ELSE 46340)

\* jt.sqrt: exact where the root is rational (sqrt(n/d) = sqrt(n*d)/d),
\* rounded down to a multiple of 1/2 where it is not
RSqrt(a) ==
    IF a[2] = 0 \/ a[1] < 0 THEN NonFinite
    ELSE LET r == Isqrt(a[1] * a[2])
         IN  IF r * r = a[1] * a[2] THEN RNorm(r, a[2])
             ELSE RNorm(Isqrt((4 * a[1]) \div a[2]), 2)

RECURSIVE RSum(_, _)
RSum(f, S) == IF S = {} THEN Zero
              ELSE LET x == CHOOSE y \in S : TRUE
                   IN  RAdd(f[x], RSum(f, S \ {x}))

Mean(f, S) == RDiv(RSum(f, S), R(Cardinality(S)))

(* ------------------------------ inputs -------------------------------- *)

\* the workers of a distributed run
Workers == {1, 2}

Classes == {"Optimizer", "SGD", "Adam"}

\* the stop-gradient flags of a list of parameters
FlagSeqs == UNION {[1..k -> BOOLEAN] : k \in 0..MaxParams}

\* hyperparameters a group dictionary may override
Overrides == {<<>>, [lr |-> Zero]}

GroupCounts == {1, 2}

RECURSIVE TotalLen(_)
TotalLen(gs) == IF gs = <<>> THEN 0 ELSE Len(Head(gs).flags) + TotalLen(Tail(gs))

\* sequences of group dictionaries: the flags of each group's params, its
\* overrides. A dictionary that is not alone holds at least one parameter,
\* and only the last dictionary overrides anything.
DictSeqs ==
    {gs \in UNION {[1..k -> [flags : FlagSeqs, over : Overrides]] : k \in GroupCounts} :
        /\ TotalLen(gs) <= MaxParams
        /\ \A k \in 1..Len(gs) :
               /\ Len(gs) > 1 => Len(gs[k].flags) > 0
               /\ k < Len(gs) => gs[k].over = <<>>}

\* what a caller passes as params: a list of raw parameters or of dictionaries
ParamInputs ==
    {[form |-> "raw", flags |-> fs] : fs \in FlagSeqs}
        \cup {[form |-> "dicts", groups |-> gs] : gs \in DictSeqs}

LrVals == {Half}

\* momentum, weight_decay, dampening, nesterov
SGDSettings ==
    {<<Zero, Zero, Zero, FALSE>>, <<Zero, Zero, Zero, TRUE>>,
     <<Half, Zero, Zero, FALSE>>, <<Half, Zero, Half, TRUE>>,
     <<Half, Half, Zero, FALSE>>}

\* constructor arguments after params, per class
HyperInputs(cls) ==
    CASE cls = "Optimizer" ->
           [lr : LrVals, param_sync_iter : {2}]
      [] cls = "SGD" ->
           {[lr |-> lr, momentum |-> x[1], weight_decay |-> x[2],
             dampening |-> x[3], nesterov |-> x[4]] : lr \in LrVals, x \in SGDSettings}
      [] cls = "Adam" ->
           [lr : LrVals, eps : {One}, betas : {<<Half, <<3, 4>>>>},
            weight_decay : {Zero, Half}]

\* the value worker w holds for the id-th parameter when the optimizer is built
InitValue(w, id) == R(2 * id - w)

\* the parameters worker w passes for flags fs, the first having identity base+1
ParamList(w, fs, base) ==
    [i \in 1..Len(fs) |-> [value |-> InitValue(w, base + i), stop_grad |-> fs[i]]]

RECURSIVE DictList(_, _, _)
DictList(w, gs, base) ==
    IF gs = <<>> THEN <<>>
    ELSE <<("params" :> ParamList(w, Head(gs).flags, base)) @@ Head(gs).over>>
             \o DictList(w, Tail(gs), base + Len(Head(gs).flags))

\* the params argument on worker w
ParamsArg(w, in) ==
    IF in.form = "raw" THEN ParamList(w, in.flags, 0) ELSE DictList(w, in.groups, 0)

(* ------------------------------- state -------------------------------- *)

VARIABLES
    status,      \* "unbuilt", "built", or "raised" when the constructor failed
    cls,         \* the class constructed
    mpi,         \* jt.mpi: TRUE in distributed mode
    self,        \* per worker, the optimizer object (its attributes)
    ref,         \* for SGD: per worker, a base Optimizer built from the same params and lr
    last,        \* the last call: "init", "step", or "step_raised"
    steps_ok,    \* step calls that returned so far
    loss,        \* the loss of the last step call
    losses,      \* the losses of the step calls that returned, in order
    local_grads, \* per worker, what jt.grad returned in the last step call
    resynced,    \* per worker, whether the last pre_step resynced the parameters
    adam_n,      \* per worker, the local n of the last Adam.step
    step_size,   \* per worker, group and parameter: step_size of the last Adam.step
    args         \* the arguments of the constructor call

vars == <<status, cls, mpi, self, ref, last, steps_ok, loss, losses, local_grads,
          resynced, adam_n, step_size, args>>

\* the workers taking part: all of them under mpi, a single process otherwise
World == IF mpi THEN Workers ELSE {1}

(* ---------------------------- construction ---------------------------- *)

IsDict(x) == "params" \in DOMAIN x

Raised == [ok |-> FALSE]

\* Optimizer.__init__
OptimizerInit(params, lr, param_sync_iter) ==
    IF ~(Len(params) > 0) THEN Raised
    ELSE LET groups == IF ~IsDict(params[1]) THEN <<[params |-> params]>> ELSE params
         IN  IF \E k \in 1..Len(groups) : ~IsDict(groups[k]) THEN Raised
             ELSE [ok |-> TRUE,
                   obj |-> [param_groups |-> groups, lr |-> lr,
                            param_sync_iter |-> param_sync_iter, n_step |-> 0]]

\* jt.zeros(p.shape, p.dtype) for every parameter of a group
ZerosLike(pg) == [i \in 1..Len(pg.params) |-> Zero]

\* SGD.__init__
SGDInit(params, lr, momentum, weight_decay, dampening, nesterov) ==
    LET base == OptimizerInit(params, lr, DefaultParamSyncIter)
    IN  IF ~base.ok THEN Raised
        ELSE [ok |-> TRUE,
              obj |-> [param_groups |->
                           [k \in 1..Len(base.obj.param_groups) |->
                               ("values" :> ZerosLike(base.obj.param_groups[k]))
                                   @@ base.obj.param_groups[k]],
                       lr |-> lr,
                       param_sync_iter |-> DefaultParamSyncIter,
                       n_step |-> 0,
                       momentum |-> momentum,
                       weight_decay |-> weight_decay,
                       dampening |-> dampening,
                       nesterov |-> nesterov]]

\* AdamInit without the assertion on weight_decay
AdamInitNoAssert(params, lr, eps, betas, weight_decay) ==
    LET base == OptimizerInit(params, lr, DefaultParamSyncIter)
    IN  IF ~base.ok THEN Raised
        ELSE [ok |-> TRUE,
              obj |-> [param_groups |->
                           [k \in 1..Len(base.obj.param_groups) |->
                               ("values" :> ZerosLike(base.obj.param_groups[k]))
                                   @@ ("m" :> ZerosLike(base.obj.param_groups[k]))
                                   @@ base.obj.param_groups[k]],
                       lr |-> lr,
                       param_sync_iter |-> DefaultParamSyncIter,
                       n_step |-> 0,
                       eps |-> eps,
                       betas |-> betas]]

\* Adam.__init__
AdamInit(params, lr, eps, betas, weight_decay) ==
    LET base == OptimizerInit(params, lr, DefaultParamSyncIter)
    IN  IF ~base.ok THEN Raised
        ELSE IF ~(weight_decay = Zero) THEN Raised
        ELSE [ok |-> TRUE,
              obj |-> [param_groups |->
                           [k \in 1..Len(base.obj.param_groups) |->
                               ("values" :> ZerosLike(base.obj.param_groups[k]))
                                   @@ ("m" :> ZerosLike(base.obj.param_groups[k]))
                                   @@ base.obj.param_groups[k]],
                       lr |-> lr,
                       param_sync_iter |-> DefaultParamSyncIter,
                       n_step |-> 0,
                       eps |-> eps,
                       betas |-> betas]]

\* the constructor call of class c on params with the further arguments h
New(c, params, h) ==
    CASE c = "Optimizer" -> OptimizerInit(params, h.lr, h.param_sync_iter)
      [] c = "SGD" -> SGDInit(params, h.lr, h.momentum, h.weight_decay,
                              h.dampening, h.nesterov)
      [] c = "Adam" -> AdamInit(params, h.lr, h.eps, h.betas, h.weight_decay)

Init ==
    /\ status = "unbuilt"
    /\ cls = "None"
    /\ mpi \in BOOLEAN
    /\ self = <<>>
    /\ ref = <<>>
    /\ last = "None"
    /\ steps_ok = 0
    /\ loss = "None"
    /\ losses = <<>>
    /\ local_grads = <<>>
    /\ resynced = <<>>
    /\ adam_n = <<>>
    /\ step_size = <<>>
    /\ args = None

\* every worker runs the same constructor call on its own copy of the model
Build(c, in, h) ==
    /\ LET made == [w \in World |-> New(c, ParamsArg(w, in), h)]
           base == [w \in World |->
                       OptimizerInit(ParamsArg(w, in), h.lr, DefaultParamSyncIter)]
       IN  IF \A w \in World : made[w].ok
           THEN /\ status' = "built"
                /\ self' = [w \in World |-> made[w].obj]
                /\ ref' = IF c = "SGD" THEN [w \in World |-> base[w].obj] ELSE ref
           ELSE /\ status' = "raised"
                /\ UNCHANGED <<self, ref>>
    /\ cls' = c
    /\ args' = [params |-> in, hyper |-> h]
    /\ last' = "init"
    /\ UNCHANGED <<mpi, steps_ok, loss, losses, local_grads, resynced, adam_n,
                   step_size>>

\* the one constructor call of a run
Construct ==
    /\ status = "unbuilt"
    /\ \E c \in Classes, in \in ParamInputs : \E h \in HyperInputs(c) : Build(c, in, h)

(* ------------------------------ pre_step ------------------------------ *)

\* what a caller may pass to step: two losses the engine differentiates,
\* and one it cannot (not connected to the requested parameters)
Losses == {"zero", "mixed"}
BadLoss == "detached"

\* the gradient of a loss with respect to the id-th parameter on worker w
LossGrad(l, w, id) ==
    CASE l = "zero" -> Zero
      [] l = "mixed" -> IF id % 2 = 1 THEN R(-w) ELSE R(2 * w)

\* pg.get(key, default)
Get(pg, key, default) == IF key \in DOMAIN pg THEN pg[key] ELSE default

\* lines 48-55: the list params, each entry the <<group, index>> of a parameter
RECURSIVE ParamsFrom(_, _)
ParamsFrom(pgs, g) ==
    IF g > Len(pgs) THEN <<>>
    ELSE [i \in 1..Len(pgs[g].params) |-> <<g, i>>] \o ParamsFrom(pgs, g + 1)

Params(pgs) == ParamsFrom(pgs, 1)

IsStopGrad(pgs, pos) == pgs[pos[1]].params[pos[2]].stop_grad

\* lines 48-55: params_has_grad, each entry the position of a parameter in params
RECURSIVE HasGradFrom(_, _)
HasGradFrom(pgs, k) ==
    IF k > Len(Params(pgs)) THEN <<>>
    ELSE (IF ~IsStopGrad(pgs, Params(pgs)[k]) THEN <<k>> ELSE <<>>)
             \o HasGradFrom(pgs, k + 1)

ParamsHasGrad(pgs) == HasGradFrom(pgs, 1)

\* line 51: pg["grads"] = [None] * len(pg['params'])
CleanGrads(pgs) ==
    [g \in 1..Len(pgs) |->
        ("grads" :> [i \in 1..Len(pgs[g].params) |-> None]) @@ pgs[g]]

\* line 61: jt.grad(loss, params_has_grad) on worker w
JtGrad(l, w, has_grad) == [k \in 1..Len(has_grad) |-> LossGrad(l, w, has_grad[k])]

\* ReduceGrads with the all-reduce left out
ReduceGradsLocal(gs) == gs

\* lines 65-66: each gradient replaced by its mean over the workers
ReduceGrads(gs) ==
    [w \in DOMAIN gs |->
        [k \in 1..Len(gs[w]) |-> Mean([v \in DOMAIN gs |-> gs[v][k]], DOMAIN gs)]]

\* SyncDue with the test made after the increment of n_step
SyncDueAfterIncrement(n_step, param_sync_iter) == (n_step + 1) % param_sync_iter = 0

\* line 67: the resync test, on n_step as it is before line 70
SyncDue(n_step, param_sync_iter) == n_step % param_sync_iter = 0

\* lines 68-69: every parameter replaced by its mean over the workers
SyncParams(objs, w) ==
    LET pgs == objs[w].param_groups
    IN  [g \in 1..Len(pgs) |->
            [pgs[g] EXCEPT !.params =
                [i \in 1..Len(pgs[g].params) |->
                    [pgs[g].params[i] EXCEPT !.value =
                        Mean([v \in DOMAIN objs |->
                                 objs[v].param_groups[g].params[i].value],
                             DOMAIN objs)]]]]

\* lines 75-79 for one group: <<pg_grads, pid>> after the inner loop from index i
RECURSIVE ScatterGroup(_, _, _, _)
ScatterGroup(pg, grads, i, pid) ==
    IF i > Len(pg.params) THEN <<pg.grads, pid>>
    ELSE IF ~pg.params[i].stop_grad
         THEN LET rest == ScatterGroup(pg, grads, i + 1, pid + 1)
              IN  <<[rest[1] EXCEPT ![i] = grads[pid + 1]], rest[2]>>
         ELSE ScatterGroup(pg, grads, i + 1, pid)

\* SetUpGrads with pid = 0 moved inside the loop over the groups
RECURSIVE SetUpGradsPidPerGroup(_, _, _, _)
SetUpGradsPidPerGroup(pgs, grads, g, pid) ==
    IF g > Len(pgs) THEN pgs
    ELSE LET r == ScatterGroup(pgs[g], grads, 1, 0)
         IN  SetUpGradsPidPerGroup([pgs EXCEPT ![g].grads = r[1]], grads, g + 1, r[2])

\* lines 73-79: the groups from g on, pid being the gradients handed out so far
RECURSIVE SetUpGrads(_, _, _, _)
SetUpGrads(pgs, grads, g, pid) ==
    IF g > Len(pgs) THEN pgs
    ELSE LET r == ScatterGroup(pgs[g], grads, 1, pid)
         IN  SetUpGrads([pgs EXCEPT ![g].grads = r[1]], grads, g + 1, r[2])

\* NextNStep with "= +1" written for "+= 1"
NextNStepAssign(n_step) == 1

\* line 70
NextNStep(n_step) == n_step + 1

\* PreStepRaised with n_step incremented ahead of the jt.grad call
PreStepRaisedCounts(objs) ==
    [w \in DOMAIN objs |->
        [objs[w] EXCEPT !.param_groups = CleanGrads(objs[w].param_groups),
                        !.n_step = objs[w].n_step + 1]]

\* pre_step up to the failing jt.grad call (lines 48-61)
PreStepRaised(objs) ==
    [w \in DOMAIN objs |->
        [objs[w] EXCEPT !.param_groups = CleanGrads(objs[w].param_groups)]]

\* pre_step on every worker; distributed tells whether jt.mpi is set.
\* Gives the objects, what jt.grad returned, and whether each worker resynced.
PreStep(objs, l, distributed) ==
    LET clean == PreStepRaised(objs)
        local == [w \in DOMAIN objs |->
                     JtGrad(l, w, ParamsHasGrad(clean[w].param_groups))]
        grads == IF distributed THEN ReduceGrads(local) ELSE local
        due == [w \in DOMAIN objs |->
                   distributed /\ SyncDue(clean[w].n_step, clean[w].param_sync_iter)]
    IN  [objs |->
            [w \in DOMAIN objs |->
                [clean[w] EXCEPT
                    !.param_groups =
                        SetUpGrads(IF due[w] THEN SyncParams(clean, w)
                                   ELSE clean[w].param_groups,
                                   grads[w], 1, 0),
                    !.n_step = NextNStep(clean[w].n_step)]],
         local |-> local,
         resynced |-> due]

(* ---------------------------- update rules ---------------------------- *)

\* Optimizer.step, line 87
PlainUpdate(p, g, lr) == RSub(p, RMul(g, lr))

\* Optimizer.step, lines 84-89, for one group
OptimizerGroup(pg, o) ==
    LET lr == Get(pg, "lr", o.lr)
    IN  [pg EXCEPT !.params =
            [i \in 1..Len(pg.params) |->
                IF pg.params[i].stop_grad THEN pg.params[i]
                ELSE [pg.params[i] EXCEPT
                         !.value = PlainUpdate(pg.params[i].value, pg.grads[i], lr)]]]

\* SGDUpdate with the momentum factor left out of the velocity
SGDUpdateAccumulates(p, g, v, lr, momentum, weight_decay, dampening, nesterov) ==
    LET dp == RAdd(RMul(p, weight_decay), g)
        v1 == RAdd(v, RMul(dp, RSub(One, dampening)))
    IN  [v |-> v1,
         p |-> IF nesterov THEN RSub(p, RMul(RAdd(dp, RMul(momentum, v1)), lr))
               ELSE RSub(p, RMul(v1, lr))]

\* SGDUpdate that takes a zero gradient for nothing to do
SGDUpdateSkipsZeroGrad(p, g, v, lr, momentum, weight_decay, dampening, nesterov) ==
    IF g = Zero THEN [v |-> v, p |-> p]
    ELSE LET dp == RAdd(RMul(p, weight_decay), g)
             v1 == RAdd(RMul(momentum, v), RMul(dp, RSub(One, dampening)))
         IN  [v |-> v1,
              p |-> IF nesterov THEN RSub(p, RMul(RAdd(dp, RMul(momentum, v1)), lr))
                    ELSE RSub(p, RMul(v1, lr))]

\* SGD.step, lines 126-131: the new [p, v]
SGDUpdate(p, g, v, lr, momentum, weight_decay, dampening, nesterov) ==
    LET dp == RAdd(RMul(p, weight_decay), g)
        v1 == RAdd(RMul(momentum, v), RMul(dp, RSub(One, dampening)))
    IN  [v |-> v1,
         p |-> IF nesterov THEN RSub(p, RMul(RAdd(dp, RMul(momentum, v1)), lr))
               ELSE RSub(p, RMul(v1, lr))]

\* SGDGroup that takes the missing gradient of a stop-gradient parameter
\* for zero instead of skipping the parameter
SGDGroupDecaysFrozen(pg, o) ==
    LET lr == Get(pg, "lr", o.lr)
        momentum == Get(pg, "momentum", o.momentum)
        weight_decay == Get(pg, "weight_decay", o.weight_decay)
        dampening == Get(pg, "dampening", o.dampening)
        nesterov == Get(pg, "nesterov", o.nesterov)
        new == [i \in 1..Len(pg.params) |->
                   SGDUpdate(pg.params[i].value,
                             IF pg.params[i].stop_grad THEN Zero ELSE pg.grads[i],
                             pg.values[i], lr, momentum, weight_decay, dampening,
                             nesterov)]
    IN  [pg EXCEPT
            !.params = [i \in 1..Len(pg.params) |->
                           [pg.params[i] EXCEPT !.value = new[i].p]],
            !.values = [i \in 1..Len(pg.params) |-> new[i].v]]

\* SGD.step, lines 117-132, for one group
SGDGroup(pg, o) ==
    LET lr == Get(pg, "lr", o.lr)
        momentum == Get(pg, "momentum", o.momentum)
        weight_decay == Get(pg, "weight_decay", o.weight_decay)
        dampening == Get(pg, "dampening", o.dampening)
        nesterov == Get(pg, "nesterov", o.nesterov)
        new == [i \in 1..Len(pg.params) |->
                   IF pg.params[i].stop_grad
                   THEN [p |-> pg.params[i].value, v |-> pg.values[i]]
                   ELSE SGDUpdate(pg.params[i].value, pg.grads[i], pg.values[i], lr,
                                  momentum, weight_decay, dampening, nesterov)]
    IN  [pg EXCEPT
            !.params = [i \in 1..Len(pg.params) |->
                           [pg.params[i] EXCEPT !.value = new[i].p]],
            !.values = [i \in 1..Len(pg.params) |-> new[i].v]]

\* Adam.step, line 169
StepSize(lr, b0, b1, n) ==
    RDiv(RMul(lr, RSqrt(RSub(One, RPow(b1, n)))), RSub(One, RPow(b0, n)))

\* Adam.step, lines 167-170: the new [p, v, m] and the step_size used
AdamUpdate(p, g, v, m, lr, eps, b0, b1, n) ==
    LET m1 == RAdd(RMul(b0, m), RMul(RSub(One, b0), g))
        v1 == RAdd(RMul(b1, v), RMul(RMul(RSub(One, b1), g), g))
        ss == StepSize(lr, b0, b1, n)
    IN  [m |-> m1, v |-> v1, step_size |-> ss,
         p |-> RSub(p, RDiv(RMul(m1, ss), RAdd(RSqrt(v1), eps)))]

\* Adam.step, lines 162-170, for one group: its parameters' AdamUpdate, and
\* for a parameter the loop skips what it has, with no step_size
AdamNew(pg, o, n) ==
    LET lr == Get(pg, "lr", o.lr)
        eps == Get(pg, "eps", o.eps)
        betas == Get(pg, "betas", o.betas)
    IN  [i \in 1..Len(pg.params) |->
            IF pg.params[i].stop_grad
            THEN [m |-> pg.m[i], v |-> pg.values[i], step_size |-> None,
                  p |-> pg.params[i].value]
            ELSE AdamUpdate(pg.params[i].value, pg.grads[i], pg.values[i], pg.m[i],
                            lr, eps, betas[1], betas[2], n)]

\* Adam.step, lines 162-171, for one group
AdamGroup(pg, o, n) ==
    LET new == AdamNew(pg, o, n)
    IN  [pg EXCEPT
            !.params = [i \in 1..Len(pg.params) |->
                           [pg.params[i] EXCEPT !.value = new[i].p]],
            !.values = [i \in 1..Len(pg.params) |-> new[i].v],
            !.m = [i \in 1..Len(pg.params) |-> new[i].m]]

\* AdamN with n read before pre_step is called
AdamNBeforePreStep(before, after) == before.n_step

\* Adam.step, line 159: n, read after pre_step returned
AdamN(before, after) == after.n_step

\* the loop over the groups of the object o of class c, after pre_step;
\* before is the object as it was when step was called
Update(c, before, o) ==
    [o EXCEPT !.param_groups =
        [g \in 1..Len(o.param_groups) |->
            CASE c = "Optimizer" -> OptimizerGroup(o.param_groups[g], o)
              [] c = "SGD" -> SGDGroup(o.param_groups[g], o)
              [] c = "Adam" -> AdamGroup(o.param_groups[g], o, AdamN(before, o))]]

(* ------------------------------- step --------------------------------- *)

\* step(loss) on every worker of class c: the objects after it, what jt.grad
\* returned, which workers resynced, and Adam's n and step_size
StepCall(c, objs, l, distributed) ==
    LET pre == PreStep(objs, l, distributed)
    IN  [objs |-> [w \in DOMAIN objs |-> Update(c, objs[w], pre.objs[w])],
         local |-> pre.local,
         resynced |-> pre.resynced,
         n |-> [w \in DOMAIN objs |-> AdamN(objs[w], pre.objs[w])],
         step_size |->
             [w \in DOMAIN objs |->
                 [g \in 1..Len(objs[w].param_groups) |->
                     IF c = "Adam"
                     THEN LET new == AdamNew(pre.objs[w].param_groups[g], pre.objs[w],
                                             AdamN(objs[w], pre.objs[w]))
                          IN  [i \in 1..Len(new) |-> new[i].step_size]
                     ELSE <<>>]]]

\* step(loss) returns on every worker
Step(l) ==
    /\ status = "built"
    /\ steps_ok < MaxSteps
    /\ \E r \in {StepCall(cls, self, l, mpi)} :
           /\ self' = r.objs
           /\ local_grads' = r.local
           /\ resynced' = r.resynced
           /\ adam_n' = IF cls = "Adam" THEN r.n ELSE adam_n
           /\ step_size' = IF cls = "Adam" THEN r.step_size ELSE step_size
    /\ IF cls = "SGD"
       THEN \E r \in {StepCall("Optimizer", ref, l, mpi)} : ref' = r.objs
       ELSE ref' = ref
    /\ last' = "step"
    /\ steps_ok' = steps_ok + 1
    /\ loss' = l
    /\ losses' = Append(losses, l)
    /\ UNCHANGED <<status, cls, mpi, args>>

\* step(loss) raises out of jt.grad on every worker
StepRaised ==
    /\ status = "built"
    /\ steps_ok < MaxSteps
    /\ self' = PreStepRaised(self)
    /\ ref' = IF cls = "SGD" THEN PreStepRaised(ref) ELSE ref
    /\ last' = "step_raised"
    /\ loss' = BadLoss
    /\ UNCHANGED <<status, cls, mpi, steps_ok, losses, local_grads, resynced,
                   adam_n, step_size, args>>

Next ==
    \/ Construct
    \/ \E l \in Losses : Step(l)
    \/ StepRaised

Spec == Init /\ [][Next]_vars

(* ------------------------- reading the state -------------------------- *)

Built == status = "built"

\* the groups of worker w's optimizer
Groups(w) == self[w].param_groups

\* the <<group, index>> of every parameter the optimizer holds
Positions ==
    UNION {{<<g, i>> : i \in 1..Len(Groups(1)[g].params)} : g \in 1..Len(Groups(1))}

Param(w, pos) == Groups(w)[pos[1]].params[pos[2]]

Stopped(pos) == Param(1, pos).stop_grad

Trainable == {pos \in Positions : ~Stopped(pos)}

\* q is pos or comes before it when the groups are flattened in order
UpTo(q, pos) == q[1] < pos[1] \/ (q[1] = pos[1] /\ q[2] <= pos[2])

\* the place of a parameter among all parameters, and among the trainable ones
IdOf(pos) == Cardinality({q \in Positions : UpTo(q, pos)})
RankOf(pos) == Cardinality({q \in Trainable : UpTo(q, pos)})

\* the learning rate in force for a group
LrOf(w, g) == Get(Groups(w)[g], "lr", self[w].lr)

\* the k-th gradient of the last batched call as the update rule sees it
Returned(w, k) ==
    IF mpi THEN Mean([v \in World |-> local_grads[v][k]], World)
    ELSE local_grads[w][k]

(* ------------------------------- claims ------------------------------- *)

\* C1: after every completed pre_step, in every group grads is as long as
\* params, grads[i] is None exactly for the stop-gradient params[i], and every
\* other grads[i] is the k-th output of the batched gradient call (mean-reduced
\* in place under mpi), k being the place of params[i] among the trainable
\* parameters of all groups in order; that output is the engine's gradient
\* for that very parameter.
C1_GradsAligned ==
    (Built /\ last = "step") =>
        \A w \in World :
            /\ \A g \in 1..Len(Groups(w)) :
                   Len(Groups(w)[g].grads) = Len(Groups(w)[g].params)
            /\ Len(local_grads[w]) = Cardinality(Trainable)
            /\ \A pos \in Positions :
                   LET gr == Groups(w)[pos[1]].grads[pos[2]]
                   IN  /\ (gr = None) <=> Stopped(pos)
                       /\ ~Stopped(pos) =>
                              /\ gr = Returned(w, RankOf(pos))
                              /\ local_grads[w][RankOf(pos)] =
                                     LossGrad(loss, w, IdOf(pos))

\* C1 witness: a step has returned where a trainable parameter follows a
\* stop-gradient one or sits in a second group, so that its place in its group
\* is not its place in the batched call, and its gradient is not zero.
C1_Witness ==
    /\ Built /\ last = "step" /\ mpi
    /\ \E pos \in Trainable :
           /\ RankOf(pos) # pos[2]
           /\ Groups(2)[pos[1]].grads[pos[2]] # Zero

\* C2: n_step is 0 after construction and equals the number of step calls
\* that returned, on every worker, whatever the groups, the mode and the
\* resyncs; a step call that raised does not count.
C2_NStepCountsSteps ==
    Built => \A w \in World : self[w].n_step = steps_ok

\* C2 witness: two steps returned in distributed mode on two groups.
C2_Witness ==
    /\ Built /\ mpi /\ steps_ok = 2
    /\ Len(Groups(1)) = 2
    /\ self[1].n_step = 2

\* SGD configured as plain gradient descent
PlainSGD ==
    /\ cls = "SGD"
    /\ \A g \in 1..Len(Groups(1)) :
           /\ Get(Groups(1)[g], "momentum", self[1].momentum) = Zero
           /\ Get(Groups(1)[g], "weight_decay", self[1].weight_decay) = Zero
           /\ Get(Groups(1)[g], "dampening", self[1].dampening) = Zero

\* C3: SGD with momentum = weight_decay = dampening = 0, nesterov or not, holds
\* after every step the parameter values of a base Optimizer with the same lr
\* that started from the same parameters and saw the same losses.
C3_PlainSGDIsGradientDescent ==
    (Built /\ PlainSGD) =>
        \A w \in World : \A pos \in Positions :
            Param(w, pos).value = ref[w].param_groups[pos[1]].params[pos[2]].value

\* C3 witness: plain SGD with nesterov set has taken two steps with non-zero
\* gradients and moved a parameter.
C3_Witness ==
    /\ Built /\ PlainSGD /\ self[1].nesterov
    /\ losses = <<"mixed", "mixed">>
    /\ \E pos \in Trainable : Param(1, pos).value # InitValue(1, IdOf(pos))

\* C6: in the k-th step call that returns, Adam's n is k, the value of n_step
\* after pre_step's increment, on every worker and for every parameter; so n is
\* at least 1, and in the first call step_size = lr * sqrt(1-b1) / (1-b0).
C6_AdamExponent ==
    (Built /\ cls = "Adam" /\ last = "step") =>
        \A w \in World :
            /\ adam_n[w] = steps_ok
            /\ adam_n[w] = self[w].n_step
            /\ adam_n[w] >= 1
            /\ \A pos \in Trainable :
                   LET betas == Get(Groups(w)[pos[1]], "betas", self[w].betas)
                       ss == step_size[w][pos[1]][pos[2]]
                   IN  /\ ss = StepSize(LrOf(w, pos[1]), betas[1], betas[2], steps_ok)
                       /\ steps_ok = 1 =>
                              ss = RDiv(RMul(LrOf(w, pos[1]),
                                             RSqrt(RSub(One, betas[2]))),
                                        RSub(One, betas[1]))

\* C6 witness: Adam's second step call has returned, with a trainable
\* parameter in each of two groups.
C6_Witness ==
    /\ Built /\ cls = "Adam" /\ last = "step" /\ steps_ok = 2
    /\ adam_n[1] = 2
    /\ \E p1 \in Trainable, p2 \in Trainable : p1[1] # p2[1]

\* the params argument is an empty sequence
EmptyParams == args.params.form = "raw" /\ args.params.flags = <<>>

\* C7: construction fails exactly when params is empty or Adam is given a
\* non-zero weight_decay; otherwise the optimizer has n_step = 0 and one group
\* per dictionary supplied, or one group holding all the raw parameters.
C7_Construction ==
    (last = "init") =>
        /\ status = "raised" <=>
               (EmptyParams \/ (cls = "Adam" /\ args.hyper.weight_decay # Zero))
        /\ status = "built" =>
               \A w \in World :
                   /\ self[w].n_step = 0
                   /\ IF args.params.form = "raw"
                      THEN /\ Len(Groups(w)) = 1
                           /\ Groups(w)[1].params = ParamList(w, args.params.flags, 0)
                      ELSE /\ Len(Groups(w)) = Len(args.params.groups)
                           /\ \A g \in 1..Len(Groups(w)) :
                                  [i \in 1..Len(Groups(w)[g].params) |->
                                      Groups(w)[g].params[i].stop_grad]
                                      = args.params.groups[g].flags

\* C7 witness: Adam was given parameters and a non-zero weight_decay, and
\* the constructor raised.
C7_Witness ==
    /\ status = "raised" /\ cls = "Adam"
    /\ ~EmptyParams
    /\ args.hyper.weight_decay # Zero

\* C10: in distributed mode, after every step call that returned, the
\* workers hold the same parameters, auxiliary state and n_step, and the
\* gradients the update rule consumed are the means of the workers' own.
C10_WorkersAgree ==
    (Built /\ mpi /\ last = "step") =>
        /\ \A w \in World : self[w] = self[1]
        /\ \A w \in World : \A pos \in Trainable :
               Groups(w)[pos[1]].grads[pos[2]] =
                   Mean([v \in World |-> LossGrad(loss, v, IdOf(pos))], World)

\* C10 witness: the first distributed step has returned; the workers started
\* from different values of a trainable parameter and computed different
\* gradients for it.
C10_Witness ==
    /\ Built /\ mpi /\ last = "step" /\ steps_ok = 1
    /\ \E pos \in Trainable :
           /\ InitValue(1, IdOf(pos)) # InitValue(2, IdOf(pos))
           /\ local_grads[1][RankOf(pos)] # local_grads[2][RankOf(pos)]

(* ---------------------- claims about one step call -------------------- *)

\* the step taken is a step call that returned
StepReturned == last' = "step"

\* the same, with every gradient zero
ZeroStepReturned == last' = "step" /\ loss' = "zero"

\* the step taken is a step call that raised
StepFailed == last' = "step_raised"

GroupsAfter(w) == self'[w].param_groups
ValueAfter(w, pos) == GroupsAfter(w)[pos[1]].params[pos[2]].value
GradAfter(w, pos) == GroupsAfter(w)[pos[1]].grads[pos[2]]

\* the mean over the workers of a parameter's value before the call
WorldMean(pos) == Mean([v \in World |-> Param(v, pos).value], World)

\* whether the call resyncs on worker w: n_step as it is before the call
ResyncDue(w) == mpi /\ self[w].n_step % self[w].param_sync_iter = 0

\* the value the update rule of the call starts from
Start(w, pos) == IF ResyncDue(w) THEN WorldMean(pos) ELSE Param(w, pos).value

\* the hyperparameters in force for the group of pos
Hyper(w, pos, key) == Get(Groups(w)[pos[1]], key, self[w][key])

\* C4: under mpi, pre_step replaces every parameter, stop-gradient ones
\* included, by the mean over the workers of its value before the call exactly
\* in the calls where n_step, read before its increment, is 0 modulo
\* param_sync_iter, and the update rule of that call starts from the resynced
\* value; without mpi no parameter is ever resynced.
C4_ResyncSchedule ==
    [][StepReturned =>
          \A w \in World :
              /\ resynced'[w] = ResyncDue(w)
              /\ \A pos \in Positions :
                     IF Stopped(pos) THEN ValueAfter(w, pos) = Start(w, pos)
                     ELSE CASE cls = "Optimizer" ->
                                 ValueAfter(w, pos) =
                                     PlainUpdate(Start(w, pos), GradAfter(w, pos),
                                                 LrOf(w, pos[1]))
                            [] cls = "SGD" ->
                                 ValueAfter(w, pos) =
                                     SGDUpdate(Start(w, pos), GradAfter(w, pos),
                                               Groups(w)[pos[1]].values[pos[2]],
                                               LrOf(w, pos[1]),
                                               Hyper(w, pos, "momentum"),
                                               Hyper(w, pos, "weight_decay"),
                                               Hyper(w, pos, "dampening"),
                                               Hyper(w, pos, "nesterov")).p
                            [] cls = "Adam" ->
                                 ValueAfter(w, pos) =
                                     AdamUpdate(Start(w, pos), GradAfter(w, pos),
                                                Groups(w)[pos[1]].values[pos[2]],
                                                Groups(w)[pos[1]].m[pos[2]],
                                                LrOf(w, pos[1]),
                                                Hyper(w, pos, "eps"),
                                                Hyper(w, pos, "betas")[1],
                                                Hyper(w, pos, "betas")[2],
                                                self[w].n_step + 1).p
    ]_vars

\* C4 witness: a base Optimizer under mpi with param_sync_iter 2 has resynced
\* in its third call, having skipped the resync in its second; it holds a
\* stop-gradient parameter.
C4_Witness ==
    /\ Built /\ mpi /\ cls = "Optimizer" /\ last = "step"
    /\ self[1].param_sync_iter = 2 /\ self[1].n_step = 3
    /\ resynced[1] /\ resynced[2]
    /\ \E pos \in Positions : Stopped(pos)

\* velocity and moments of a parameter before and after the call
VBefore(w, pos) == Groups(w)[pos[1]].values[pos[2]]
VAfter(w, pos) == GroupsAfter(w)[pos[1]].values[pos[2]]
MBefore(w, pos) == Groups(w)[pos[1]].m[pos[2]]
MAfter(w, pos) == GroupsAfter(w)[pos[1]].m[pos[2]]

\* C5 as claimed: a zero-gradient step of SGD, whatever its settings, turns
\* every trainable velocity into momentum*v_prev, one of Adam turns the moments
\* into b0*m_prev and b1*v_prev, and the parameter changes whenever the decayed
\* state is not zero.
C5_AsClaimed ==
    [][ZeroStepReturned =>
          \A w \in World : \A pos \in Trainable :
              CASE cls = "SGD" ->
                     /\ VAfter(w, pos) = RMul(Hyper(w, pos, "momentum"), VBefore(w, pos))
                     /\ VAfter(w, pos) # Zero => ValueAfter(w, pos) # Start(w, pos)
                [] cls = "Adam" ->
                     /\ MAfter(w, pos) = RMul(Hyper(w, pos, "betas")[1], MBefore(w, pos))
                     /\ VAfter(w, pos) = RMul(Hyper(w, pos, "betas")[2], VBefore(w, pos))
                     /\ (MAfter(w, pos) # Zero \/ VAfter(w, pos) # Zero) =>
                            ValueAfter(w, pos) # Start(w, pos)
                [] OTHER -> TRUE
    ]_vars

\* C5 amended: in a zero-gradient step SGD turns every trainable velocity v
\* into momentum*v + weight_decay*p*(1-dampening), p being the parameter after
\* the call's resync if any, which is momentum*v when weight_decay is 0; Adam
\* turns the moments into b0*m and b1*v; the parameter moves by lr times the
\* update term of the decayed state, so with lr # 0 it changes whenever the
\* new velocity (SGD, weight_decay = 0) or the new first moment (Adam) is not 0.
C5_ZeroGradientDecays ==
    [][ZeroStepReturned =>
          \A w \in World : \A pos \in Trainable :
              CASE cls = "SGD" ->
                     LET momentum == Hyper(w, pos, "momentum")
                         wd == Hyper(w, pos, "weight_decay")
                         dp == RMul(Start(w, pos), wd)
                         lr == LrOf(w, pos[1])
                     IN  /\ VAfter(w, pos) =
                                RAdd(RMul(momentum, VBefore(w, pos)),
                                     RMul(dp, RSub(One, Hyper(w, pos, "dampening"))))
                         /\ wd = Zero =>
                                VAfter(w, pos) = RMul(momentum, VBefore(w, pos))
                         /\ ValueAfter(w, pos) =
                                RSub(Start(w, pos),
                                     RMul(lr, IF Hyper(w, pos, "nesterov")
                                              THEN RAdd(dp, RMul(momentum, VAfter(w, pos)))
                                              ELSE VAfter(w, pos)))
                         /\ (wd = Zero /\ lr # Zero /\ VAfter(w, pos) # Zero) =>
                                ValueAfter(w, pos) # Start(w, pos)
                [] cls = "Adam" ->
                     LET lr == LrOf(w, pos[1])
                     IN  /\ MAfter(w, pos) =
                                RMul(Hyper(w, pos, "betas")[1], MBefore(w, pos))
                         /\ VAfter(w, pos) =
                                RMul(Hyper(w, pos, "betas")[2], VBefore(w, pos))
                         /\ ValueAfter(w, pos) =
                                RSub(Start(w, pos),
                                     RDiv(RMul(MAfter(w, pos), step_size'[w][pos[1]][pos[2]]),
                                          RAdd(RSqrt(VAfter(w, pos)), Hyper(w, pos, "eps"))))
                         /\ (lr # Zero /\ MAfter(w, pos) # Zero) =>
                                ValueAfter(w, pos) # Start(w, pos)
                [] OTHER -> TRUE
    ]_vars

\* C5 witness: SGD with momentum and no weight decay has taken two
\* zero-gradient steps in a row on a velocity that is still not zero.
C5_Witness ==
    /\ Built /\ cls = "SGD" /\ last = "step"
    /\ losses = <<"mixed", "zero", "zero">>
    /\ self[1].weight_decay = Zero /\ self[1].momentum # Zero
    /\ \E pos \in Trainable : Groups(1)[pos[1]].values[pos[2]] # Zero

\* the auxiliary entries of a parameter: SGD's velocity, Adam's moments
Aux(pgs, pos) ==
    <<Get(pgs[pos[1]], "values", <<>>), Get(pgs[pos[1]], "m", <<>>)>>

AuxAt(pgs, pos) ==
    [k \in 1..2 |-> IF Aux(pgs, pos)[k] = <<>> THEN None ELSE Aux(pgs, pos)[k][pos[2]]]

Durable(o) ==
    [o EXCEPT !.param_groups =
        [g \in 1..Len(o.param_groups) |->
            [k \in DOMAIN o.param_groups[g] \ {"grads"} |-> o.param_groups[g][k]]]]

\* C9: a step call that raised out of the gradient computation leaves
\* n_step, every parameter and every auxiliary entry as they were, with no
\* reduction or resync done; only the grads of each group are reset to None.
\* A step call after it gives what it would have given without the failed one.
C9_FailedStepLeavesState ==
    [][StepFailed =>
          /\ steps_ok' = steps_ok
          /\ \A w \in World :
                 /\ Durable(self'[w]) = Durable(self[w])
                 /\ self'[w].n_step = self[w].n_step
                 /\ \A pos \in Positions : GradAfter(w, pos) = None
                 /\ \A g \in 1..Len(GroupsAfter(w)) :
                        Len(GroupsAfter(w)[g].grads) = Len(Groups(w)[g].params)
          /\ \A l \in Losses :
                 StepCall(cls, self', l, mpi) = StepCall(cls, self, l, mpi)
    ]_vars

\* C9 witness: a step call raised on an optimizer that had stepped before
\* under mpi, so that there were gradients to reset.
C9_Witness ==
    /\ Built /\ mpi /\ last = "step_raised" /\ steps_ok = 1
    /\ \E pos \in Trainable : Param(1, pos).value # InitValue(1, IdOf(pos))

====
